---------------------------- MODULE Spec2Model ----------------------------
(***************************************************************************)
(* Bulk picture cropper and person editor (Python-Course repository).      *)
(*                                                                         *)
(* The specifications of this module:                                      *)
(*   GeoSpec  the pure geometry: the three _compute_origin implementations *)
(*            and the two _iter_halves planners, applied to inputs drawn   *)
(*            from bounded sets;                                           *)
(*   Spec     CropWorker.run of bulk_cropper_with_preview.py as a state    *)
(*            machine, with the GUI thread's cancel() interleaved, on      *)
(*            batches of several files;                                    *)
(*   FileSpec the same run on a single file, over every size and every     *)
(*            JobConfig within the bounds;                                 *)
(*   FairSpec the run on batches of several files of the extreme sizes,    *)
(*            with weak fairness of the worker thread;                     *)
(*   TwiceSpec two runs in a row on the same files and JobConfig;          *)
(*   NameSpec the destination name of a half, on bounded inputs;           *)
(*   SaveSpec the mode conversion and save parameters of one half;         *)
(*   PreviewSpec the rectangles update_preview draws, next to the boxes    *)
(*            run crops for the same settings;                             *)
(*   MixedSpec the run on files whose names differ only in letter case;    *)
(*   GuiSpec  MainWindow.start, cancel and on_finished around the run;     *)
(*   EditorSpec the person editor of src/User_Data/user_data.py.           *)
(***************************************************************************)
EXTENDS Integers, Sequences, FiniteSets, TLC

(***************************************************************************)
(* Bounds of the model.                                                    *)
(***************************************************************************)
MaxDim == 4         \* GeoSpec: largest region and crop extent
MaxGutter == 5      \* GeoSpec: largest center_trim
MaxFiles == 2       \* Spec: most source files in a batch
MaxImage == 3       \* Spec: largest image extent
MaxCrop == 2        \* Spec: largest requested crop extent
MaxTrim == 2        \* Spec: largest center_trim

VARIABLES
    call,       \* GeoSpec: the pending call, [fn, arguments...]
    ret,        \* GeoSpec: <<>> before the call returns, <<result>> after
    files,      \* CropWorker.files: the sorted source files
    config,     \* CropWorker.config: the JobConfig of the run
    cancel,     \* CropWorker._cancel
    outDir,     \* the output folder: destination name -> file content
    pc,         \* position of run(): loop, halves, tick, finally, done
    idx,        \* run(): 1-based index of the current source file
    plan,       \* run(): the halves _iter_halves yields for the open image
    hi,         \* run(): index in plan of the next half
    processed,  \* run(): local counter
    skipped,    \* run(): local counter
    msgs,       \* emissions of the message signal, in order
    ticks,      \* emissions of the progress signal, in order
    fin,        \* emissions of the finished signal, in order
    start_btn,  \* MainWindow.start_btn.isEnabled()
    cancel_btn, \* MainWindow.cancel_btn.isEnabled()
    worker,     \* MainWindow._worker is not None
    dialog,     \* the message box of the last start attempt, "none" if none
    data,            \* DataEditor.data: the person records
    current_index,   \* DataEditor.current_index, 0-based, -1 if none
    person_selector, \* the QComboBox: [count, currentIndex]
    name_input,      \* DataEditor.name_input.text()
    age_input,       \* DataEditor.age_input.text()
    food_input       \* DataEditor.food_input.text()

geoVars == <<call, ret>>
guiVars == <<start_btn, cancel_btn, worker, dialog>>
editorVars == <<data, current_index, person_selector, name_input, age_input, food_input>>
runVars == <<files, config, cancel, outDir, pc, idx, plan, hi, processed, skipped,
             msgs, ticks, fin, guiVars, editorVars>>
vars == <<call, ret, files, config, cancel, outDir, pc, idx, plan, hi, processed,
          skipped, msgs, ticks, fin, start_btn, cancel_btn, worker, dialog, editorVars>>

(***************************************************************************)
(* Vocabulary: ANCHORS and SPLIT_MODES.                                    *)
(***************************************************************************)
AnchorsX == {"left", "center", "right"}
AnchorsY == {"top", "center", "bottom"}
SPLIT_MODES == {"none", "vertical", "horizontal"}

Max(a, b) == IF a >= b THEN a ELSE b
Min(a, b) == IF a <= b THEN a ELSE b

(***************************************************************************)
(* _compute_origin, bulk_cropper_with_preview.py: unknown anchor -> 0.     *)
(* Python's // is floor division, as is \div.                              *)
(***************************************************************************)
compute_origin_forgot_w(W, H, w, h, ax, ay) ==
    LET x0 == IF ax = "left" THEN 0
              ELSE IF ax = "center" THEN (W - w) \div 2
              ELSE IF ax = "right" THEN W
              ELSE 0
        y0 == IF ay = "top" THEN 0
              ELSE IF ay = "center" THEN (H - h) \div 2
              ELSE IF ay = "bottom" THEN H
              ELSE 0
    IN  << Max(0, Min(x0, Max(0, W))), Max(0, Min(y0, Max(0, H))) >>

compute_origin_center_ceil(W, H, w, h, ax, ay) ==
    LET x0 == IF ax = "left" THEN 0
              ELSE IF ax = "center" THEN (W - w + 1) \div 2
              ELSE IF ax = "right" THEN W - w
              ELSE 0
        y0 == IF ay = "top" THEN 0
              ELSE IF ay = "center" THEN (H - h + 1) \div 2
              ELSE IF ay = "bottom" THEN H - h
              ELSE 0
    IN  << Max(0, Min(x0, Max(0, W - w))), Max(0, Min(y0, Max(0, H - h))) >>

compute_origin_no_clamp(W, H, w, h, ax, ay) ==
    LET x0 == IF ax = "left" THEN 0
              ELSE IF ax = "center" THEN (W - w) \div 2
              ELSE IF ax = "right" THEN W - w
              ELSE 0
        y0 == IF ay = "top" THEN 0
              ELSE IF ay = "center" THEN (H - h) \div 2
              ELSE IF ay = "bottom" THEN H - h
              ELSE 0
    IN  << x0, y0 >>

compute_origin(W, H, w, h, ax, ay) ==
    LET x0 == IF ax = "left" THEN 0
              ELSE IF ax = "center" THEN (W - w) \div 2
              ELSE IF ax = "right" THEN W - w
              ELSE 0
        y0 == IF ay = "top" THEN 0
              ELSE IF ay = "center" THEN (H - h) \div 2
              ELSE IF ay = "bottom" THEN H - h
              ELSE 0
    IN  << Max(0, Min(x0, Max(0, W - w))), Max(0, Min(y0, Max(0, H - h))) >>

(***************************************************************************)
(* _compute_origin, split_crop.py: unknown anchor -> clamped center.       *)
(***************************************************************************)
compute_origin_split_crop(W, H, w, h, ax, ay) ==
    LET x0 == IF ax = "left" THEN 0
              ELSE IF ax = "center" THEN (W - w) \div 2
              ELSE IF ax = "right" THEN W - w
              ELSE Max(0, (W - w) \div 2)
        y0 == IF ay = "top" THEN 0
              ELSE IF ay = "center" THEN (H - h) \div 2
              ELSE IF ay = "bottom" THEN H - h
              ELSE Max(0, (H - h) \div 2)
    IN  << Max(0, Min(x0, Max(0, W - w))), Max(0, Min(y0, Max(0, H - h))) >>

(***************************************************************************)
(* _compute_origin, Crop.py: the anchor is read from self.config.          *)
(***************************************************************************)
compute_origin_Crop(W, H, w, h, anchor_x, anchor_y) ==
    LET x0 == IF anchor_x = "left" THEN 0
              ELSE IF anchor_x = "center" THEN (W - w) \div 2
              ELSE IF anchor_x = "right" THEN W - w
              ELSE Max(0, (W - w) \div 2)
        y0 == IF anchor_y = "top" THEN 0
              ELSE IF anchor_y = "center" THEN (H - h) \div 2
              ELSE IF anchor_y = "bottom" THEN H - h
              ELSE Max(0, (H - h) \div 2)
    IN  << Max(0, Min(x0, Max(0, W - w))), Max(0, Min(y0, Max(0, H - h))) >>

(***************************************************************************)
(* The preview's own origin computation, bulk_cropper_with_preview.py.     *)
(***************************************************************************)
calc_crop_rect_no_clamp(W, H, w, h, ax, ay) ==
    LET x0 == IF ax = "left" THEN 0
              ELSE IF ax = "center" THEN (W - w) \div 2
              ELSE IF ax = "right" THEN W - w
              ELSE 0
        y0 == IF ay = "top" THEN 0
              ELSE IF ay = "center" THEN (H - h) \div 2
              ELSE IF ay = "bottom" THEN H - h
              ELSE 0
    IN  << x0, y0, w, h >>

\* MainWindow._calc_crop_rect: QRectF(x0, y0, w, h) as <<x0, y0, w, h>>
calc_crop_rect(W, H, w, h, ax, ay) ==
    LET x0 == IF ax = "left" THEN 0
              ELSE IF ax = "center" THEN (W - w) \div 2
              ELSE IF ax = "right" THEN W - w
              ELSE 0
        y0 == IF ay = "top" THEN 0
              ELSE IF ay = "center" THEN (H - h) \div 2
              ELSE IF ay = "bottom" THEN H - h
              ELSE 0
    IN  << Max(0, Min(x0, Max(0, W - w))), Max(0, Min(y0, Max(0, H - h))), w, h >>

(***************************************************************************)
(* Anchor mirroring for the second half of a split image: the inline       *)
(* {"left": "right", "right": "left"}.get(ax, ax) and its vertical twin.   *)
(***************************************************************************)
mirror_ax_identity(ax) == ax

mirror_ax(ax) ==
    IF ax = "left" THEN "right" ELSE IF ax = "right" THEN "left" ELSE ax

mirror_ay(ay) ==
    IF ay = "top" THEN "bottom" ELSE IF ay = "bottom" THEN "top" ELSE ay

\* a half as _iter_halves yields it: the tag, the box handed to im.crop
\* (left, upper, right, lower) and the effective anchor
Half(tag, box, ax, ay) == [tag |-> tag, box |-> box, ax |-> ax, ay |-> ay]

\* size of the image im.crop(box) returns
BoxW(box) == box[3] - box[1]
BoxH(box) == box[4] - box[2]

(***************************************************************************)
(* _iter_halves, bulk_cropper_with_preview.py (gutter-aware).  The         *)
(* generator's yields, in order, as a sequence.                            *)
(***************************************************************************)
iter_halves_no_degenerate_check(W, H, mode, center_trim, ax, ay) ==
    LET g == Max(0, center_trim)
        left_end == (W - g) \div 2
        top_end == (H - g) \div 2
    IN  IF mode = "vertical" THEN
            IF g >= W THEN << >>
            ELSE << Half("left", <<0, 0, left_end, H>>, ax, ay),
                    Half("right", <<W - left_end, 0, W, H>>, mirror_ax(ax), ay) >>
        ELSE IF mode = "horizontal" THEN
            IF g >= H THEN << >>
            ELSE << Half("top", <<0, 0, W, top_end>>, ax, ay),
                    Half("bottom", <<0, H - top_end, W, H>>, ax, mirror_ay(ay)) >>
        ELSE << Half("full", <<0, 0, W, H>>, ax, ay) >>

iter_halves_gutter_test_first(W, H, mode, center_trim, ax, ay) ==
    LET g == Max(0, center_trim)
        left_end == (W - g) \div 2
        right_start == W - left_end
        top_end == (H - g) \div 2
        bottom_start == H - top_end
    IN  IF g >= W \/ g >= H THEN << >>
        ELSE IF mode = "vertical" THEN
            IF left_end <= 0 \/ right_start >= W THEN << >>
            ELSE << Half("left", <<0, 0, left_end, H>>, ax, ay),
                    Half("right", <<right_start, 0, W, H>>, mirror_ax(ax), ay) >>
        ELSE IF mode = "horizontal" THEN
            IF top_end <= 0 \/ bottom_start >= H THEN << >>
            ELSE << Half("top", <<0, 0, W, top_end>>, ax, ay),
                    Half("bottom", <<0, bottom_start, W, H>>, ax, mirror_ay(ay)) >>
        ELSE << Half("full", <<0, 0, W, H>>, ax, ay) >>

iter_halves_second_takes_rest(W, H, mode, center_trim, ax, ay) ==
    LET g == Max(0, center_trim)
        left_end == (W - g) \div 2
        right_start == left_end + g
        top_end == (H - g) \div 2
        bottom_start == top_end + g
    IN  IF mode = "vertical" THEN
            IF g >= W THEN << >>
            ELSE IF left_end <= 0 \/ right_start >= W THEN << >>
            ELSE << Half("left", <<0, 0, left_end, H>>, ax, ay),
                    Half("right", <<right_start, 0, W, H>>, mirror_ax(ax), ay) >>
        ELSE IF mode = "horizontal" THEN
            IF g >= H THEN << >>
            ELSE IF top_end <= 0 \/ bottom_start >= H THEN << >>
            ELSE << Half("top", <<0, 0, W, top_end>>, ax, ay),
                    Half("bottom", <<0, bottom_start, W, H>>, ax, mirror_ay(ay)) >>
        ELSE << Half("full", <<0, 0, W, H>>, ax, ay) >>

iter_halves(W, H, mode, center_trim, ax, ay) ==
    LET g == Max(0, center_trim)
        left_end == (W - g) \div 2
        right_start == W - left_end
        top_end == (H - g) \div 2
        bottom_start == H - top_end
    IN  IF mode = "vertical" THEN
            IF g >= W THEN << >>
            ELSE IF left_end <= 0 \/ right_start >= W THEN << >>
            ELSE << Half("left", <<0, 0, left_end, H>>, ax, ay),
                    Half("right", <<right_start, 0, W, H>>, mirror_ax(ax), ay) >>
        ELSE IF mode = "horizontal" THEN
            IF g >= H THEN << >>
            ELSE IF top_end <= 0 \/ bottom_start >= H THEN << >>
            ELSE << Half("top", <<0, 0, W, top_end>>, ax, ay),
                    Half("bottom", <<0, bottom_start, W, H>>, ax, mirror_ay(ay)) >>
        ELSE << Half("full", <<0, 0, W, H>>, ax, ay) >>

iter_halves_split_crop_equal_halves(W, H, mode, ax, ay) ==
    LET wL == W \div 2
        wR == wL
        hT == H \div 2
        hB == hT
    IN  IF mode = "vertical" THEN
            << Half("left", <<0, 0, wL, H>>, ax, ay),
               Half("right", <<W - wR, 0, W, H>>, mirror_ax(ax), ay) >>
        ELSE IF mode = "horizontal" THEN
            << Half("top", <<0, 0, W, hT>>, ax, ay),
               Half("bottom", <<0, H - hB, W, H>>, ax, mirror_ay(ay)) >>
        ELSE << Half("full", <<0, 0, W, H>>, ax, ay) >>

(***************************************************************************)
(* _iter_halves, split_crop.py (no gutter).                                *)
(***************************************************************************)
iter_halves_split_crop(W, H, mode, ax, ay) ==
    LET wL == W \div 2
        wR == W - wL
        hT == H \div 2
        hB == H - hT
    IN  IF mode = "vertical" THEN
            << Half("left", <<0, 0, wL, H>>, ax, ay),
               Half("right", <<W - wR, 0, W, H>>, mirror_ax(ax), ay) >>
        ELSE IF mode = "horizontal" THEN
            << Half("top", <<0, 0, W, hT>>, ax, ay),
               Half("bottom", <<0, H - hB, W, H>>, ax, mirror_ay(ay)) >>
        ELSE << Half("full", <<0, 0, W, H>>, ax, ay) >>

(***************************************************************************)
(* GeoSpec: one call of a pure function on bounded inputs.                 *)
(***************************************************************************)
Dims == 0 .. MaxDim
Gutters == 0 .. MaxGutter

\* the worked examples of the specification, beyond the small range
ExampleOrigins == { <<100, 100, 50, 50>>, <<101, 50, 50, 50>>, <<40, 40, 50, 50>> }
ExamplePlans == { <<200, 100, 0>>, <<10, 50, 10>>, <<50, 10, 10>> }

OriginSizes == (Dims \X Dims \X Dims \X Dims) \cup ExampleOrigins
PlanSizes == (Dims \X Dims \X Gutters) \cup ExamplePlans

OriginCalls ==
    { [fn |-> "compute_origin", W |-> s[1], H |-> s[2], w |-> s[3], h |-> s[4],
       ax |-> ax, ay |-> ay] : s \in OriginSizes, ax \in AnchorsX, ay \in AnchorsY }

PlanCalls ==
    { [fn |-> "iter_halves", W |-> s[1], H |-> s[2], mode |-> m, center_trim |-> s[3],
       ax |-> a[1], ay |-> a[2]] :
           s \in PlanSizes, m \in SPLIT_MODES, a \in AnchorsX \X AnchorsY }

\* the person editor is a separate program: no DataEditor window exists
\* while the cropper is exercised
NoEditor ==
    /\ data = <<>> /\ current_index = -1
    /\ person_selector = [count |-> 0, currentIndex |-> -1]
    /\ name_input = "" /\ age_input = "" /\ food_input = ""

\* the cropper window is idle: no worker, Start enabled, Cancel disabled
NoWorker ==
    /\ files = <<>> /\ config = [split_mode |-> "none"] /\ cancel = FALSE
    /\ outDir = <<>> /\ pc = "done" /\ idx = 0 /\ plan = <<>> /\ hi = 0
    /\ processed = 0 /\ skipped = 0 /\ msgs = <<>> /\ ticks = <<>> /\ fin = <<>>
    /\ start_btn = TRUE /\ cancel_btn = FALSE /\ worker = FALSE /\ dialog = "none"

\* no batch is running while the functions are exercised on their own
NoRun == NoWorker /\ NoEditor

GeoInit ==
    /\ call \in OriginCalls \cup PlanCalls
    /\ ret = <<>>
    /\ NoRun

CallComputeOrigin ==
    /\ call.fn = "compute_origin"
    /\ ret = <<>>
    /\ ret' = << [bulk |-> compute_origin(call.W, call.H, call.w, call.h, call.ax, call.ay),
                  split_crop |-> compute_origin_split_crop(call.W, call.H, call.w, call.h,
                                                           call.ax, call.ay),
                  Crop |-> compute_origin_Crop(call.W, call.H, call.w, call.h,
                                               call.ax, call.ay),
                  preview |-> calc_crop_rect(call.W, call.H, call.w, call.h,
                                             call.ax, call.ay)] >>
    /\ UNCHANGED <<call, runVars>>

CallIterHalves ==
    /\ call.fn = "iter_halves"
    /\ ret = <<>>
    /\ ret' = << [bulk |-> iter_halves(call.W, call.H, call.mode, call.center_trim,
                                       call.ax, call.ay),
                  split_crop |-> iter_halves_split_crop(call.W, call.H, call.mode,
                                                        call.ax, call.ay)] >>
    /\ UNCHANGED <<call, runVars>>

GeoNext == CallComputeOrigin \/ CallIterHalves

GeoSpec == GeoInit /\ [][GeoNext]_vars

OriginReturned == call.fn = "compute_origin" /\ ret # <<>>
PlanReturned == call.fn = "iter_halves" /\ ret # <<>>

(***************************************************************************)
(* Spec: CropWorker.run (bulk_cropper_with_preview.py).                    *)
(*                                                                         *)
(* A source file is [stem, suffix, size]: size is the (W, H) Image.open    *)
(* reports, or <<>> when the file cannot be decoded (open/load raises).    *)
(* File names are strings; the content of a written file records which     *)
(* pixels of which source it holds.                                        *)
(***************************************************************************)
Stem(i) == "p" \o ToString(i)

Name(src) == src.stem \o src.suffix

\* the spellings of a suffix gather_files accepts
\* (p.suffix.lower() in SUPPORTED_EXTS), a sample of them
Suffixes == {".png", ".PNG", ".Png", ".jpg", ".JPG", ".jpeg", ".JPEG"}

\* str.lower() on these suffixes
Lower(sfx) ==
    CASE sfx \in {".png", ".PNG", ".Png"} -> ".png"
      [] sfx \in {".jpg", ".JPG"} -> ".jpg"
      [] sfx \in {".jpeg", ".JPEG"} -> ".jpeg"

DstName_size_before_tag(src, half_tag, cfg) ==
    src.stem
    \o (IF cfg.add_suffix
        THEN "_crop_" \o ToString(cfg.width) \o "x" \o ToString(cfg.height)
        ELSE "")
    \o (IF half_tag # "full" THEN "_" \o half_tag ELSE "")
    \o Lower(src.suffix)

\* target_name + format_ext for one half, format_ext = src.suffix.lower()
DstName(src, half_tag, cfg) ==
    src.stem
    \o (IF half_tag # "full" THEN "_" \o half_tag ELSE "")
    \o (IF cfg.add_suffix
        THEN "_crop_" \o ToString(cfg.width) \o "x" \o ToString(cfg.height)
        ELSE "")
    \o Lower(src.suffix)

(***************************************************************************)
(* NameSpec: the destination name of one half, on bounded inputs.          *)
(***************************************************************************)
HalfTags == {"full", "left", "right", "top", "bottom"}

NameCalls ==
    { [fn |-> "dst_name", stem |-> Stem(1), suffix |-> sfx, tag |-> t,
       add_suffix |-> a, w |-> w, h |-> h] :
          sfx \in Suffixes, t \in HalfTags, a \in BOOLEAN,
          w \in 1 .. MaxDim, h \in 1 .. MaxDim }

NameInit ==
    /\ call \in NameCalls
    /\ ret = <<>>
    /\ NoRun

CallDstName ==
    /\ call.fn = "dst_name"
    /\ ret = <<>>
    /\ ret' = << DstName([stem |-> call.stem, suffix |-> call.suffix], call.tag,
                         [add_suffix |-> call.add_suffix, width |-> call.w,
                          height |-> call.h]) >>
    /\ UNCHANGED <<call, runVars>>

NameNext == CallDstName

NameSpec == NameInit /\ [][NameNext]_vars

(***************************************************************************)
(* SaveSpec: the buffer and the parameters handed to cropped.save, on      *)
(* bounded inputs.                                                         *)
(***************************************************************************)
\* modes Image.open can report (a file named .jpg may hold any of them:
\* Pillow identifies the format by content)
ImageModes == {"1", "L", "LA", "P", "PA", "RGB", "RGBA", "CMYK", "I", "F"}

\* the modes with an alpha band or a palette
TransparentOrIndexed == {"LA", "P", "PA", "RGBA"}

\* if format_ext in (".jpg", ".jpeg"): if cropped.mode in ("RGBA", "P"):
\* cropped = cropped.convert("RGB"); the mode of the buffer cropped.save gets
SavedMode(mode, format_ext) ==
    IF format_ext \in {".jpg", ".jpeg"} /\ mode \in {"RGBA", "P"} THEN "RGB" ELSE mode

\* save_params
SaveParams(format_ext) ==
    IF format_ext \in {".jpg", ".jpeg"} THEN [quality |-> 95, optimize |-> TRUE]
    ELSE [none |-> TRUE]

SaveCalls ==
    { [fn |-> "save", suffix |-> sfx, mode |-> m] : sfx \in Suffixes, m \in ImageModes }

SaveInit ==
    /\ call \in SaveCalls
    /\ ret = <<>>
    /\ NoRun

CallSave ==
    /\ call.fn = "save"
    /\ ret = <<>>
    /\ ret' = << [format_ext |-> Lower(call.suffix),
                  mode |-> SavedMode(call.mode, Lower(call.suffix)),
                  save_params |-> SaveParams(Lower(call.suffix))] >>
    /\ UNCHANGED <<call, runVars>>

SaveNext == CallSave

SaveSpec == SaveInit /\ [][SaveNext]_vars

(***************************************************************************)
(* PreviewSpec: the rectangles MainWindow.update_preview draws and the     *)
(* rectangles run() crops, for the same image and form values.             *)
(***************************************************************************)
\* QRectF.translate(dx, dy)
Translate(rect, dx, dy) == << rect[1] + dx, rect[2] + dy, rect[3], rect[4] >>

\* the rectangles update_preview fills, in drawing order, in the coordinates
\* of the canvas (the source image)
preview_rects(imgW, imgH, cropW, cropH, split_mode, center_trim, anchor_x, anchor_y) ==
    LET left_end == (imgW - center_trim) \div 2
        right_start == imgW - left_end
        top_end == (imgH - center_trim) \div 2
        bottom_start == imgH - top_end
    IN  IF split_mode = "vertical" THEN
            IF center_trim >= imgW THEN << >>
            ELSE << [tag |-> "left",
                     rect |-> calc_crop_rect(left_end, imgH, cropW, cropH, anchor_x, anchor_y)],
                    [tag |-> "right",
                     rect |-> Translate(calc_crop_rect(left_end, imgH, cropW, cropH,
                                                       mirror_ax(anchor_x), anchor_y),
                                        right_start - left_end, 0)] >>
        ELSE IF split_mode = "horizontal" THEN
            IF center_trim >= imgH THEN << >>
            ELSE << [tag |-> "top",
                     rect |-> calc_crop_rect(imgW, top_end, cropW, cropH, anchor_x, anchor_y)],
                    [tag |-> "bottom",
                     rect |-> Translate(calc_crop_rect(imgW, top_end, cropW, cropH,
                                                       anchor_x, mirror_ay(anchor_y)),
                                        0, bottom_start - top_end)] >>
        ELSE << [tag |-> "full",
                 rect |-> calc_crop_rect(imgW, imgH, cropW, cropH, anchor_x, anchor_y)] >>

\* the rectangle run() crops from one half, in the coordinates of the source
\* image: sub_im = im.crop(half.box), cropped = sub_im.crop(crop_box)
batch_rect(half, w, h) ==
    LET o == compute_origin(BoxW(half.box), BoxH(half.box), w, h, half.ax, half.ay)
    IN  << half.box[1] + o[1], half.box[2] + o[2], w, h >>

batch_rects(W, H, w, h, mode, center_trim, ax, ay) ==
    LET hs == iter_halves(W, H, mode, center_trim, ax, ay)
    IN  [k \in DOMAIN hs |-> [tag |-> hs[k].tag, rect |-> batch_rect(hs[k], w, h)]]

PreviewCalls ==
    { [fn |-> "update_preview", W |-> W, H |-> H, w |-> w, h |-> h, mode |-> m,
       center_trim |-> g, ax |-> a[1], ay |-> a[2]] :
          W \in 1 .. MaxDim, H \in 1 .. MaxDim, w \in 1 .. MaxCrop, h \in 1 .. MaxCrop,
          m \in SPLIT_MODES, g \in Gutters, a \in AnchorsX \X AnchorsY }

PreviewInit ==
    /\ call \in PreviewCalls
    /\ ret = <<>>
    /\ NoRun

CallUpdatePreview ==
    /\ call.fn = "update_preview"
    /\ ret = <<>>
    /\ ret' = << [preview |-> preview_rects(call.W, call.H, call.w, call.h, call.mode,
                                            call.center_trim, call.ax, call.ay),
                  batch |-> batch_rects(call.W, call.H, call.w, call.h, call.mode,
                                        call.center_trim, call.ax, call.ay)] >>
    /\ UNCHANGED <<call, runVars>>

PreviewNext == CallUpdatePreview

PreviewSpec == PreviewInit /\ [][PreviewNext]_vars

\* the signals' payloads
MsgCancelled == [kind |-> "Cancelled"]
MsgSkipLarger(src, half_tag, W, H) ==
    [kind |-> "SKIP", why |-> "larger", src |-> Name(src), tag |-> half_tag,
     W |-> W, H |-> H]
MsgSkipExists(dst) == [kind |-> "SKIP", why |-> "exists", dst |-> dst]
MsgOk(dst) == [kind |-> "OK", dst |-> dst]
MsgError(src) == [kind |-> "ERROR", src |-> Name(src)]

\* a file already in the output folder before the run
OldContent == [src |-> "old"]

\* cropped = sub_im.crop(crop_box), sub_im = im.crop(half.box): the pixels
\* of src it holds
Cropped(src, half, crop_box) ==
    [src |-> Name(src), tag |-> half.tag, half |-> half.box, crop |-> crop_box]

\* dst written (created or replaced)
Save(dir, dst, content) ==
    [d \in DOMAIN dir \cup {dst} |-> IF d = dst THEN content ELSE dir[d]]

Exists_never(dir, dst) == FALSE

\* dst.exists()
Exists(dir, dst) == dst \in DOMAIN dir

ImageSizes == { <<W, H>> : W \in 1 .. MaxImage, H \in 1 .. MaxImage }
SquareSizes == { <<W, W>> : W \in 1 .. MaxImage }

\* n source files as gather_files lists them (sorted, distinct names), each
\* of one of the sizes or undecodable
FileLists(n, sizes) ==
    { [i \in 1 .. n |-> [stem |-> Stem(i), suffix |-> ".png", size |-> sz[i]]] :
          sz \in [1 .. n -> sizes \cup {<<>>}] }

\* split mode with its center_trim (the spin box is disabled for "none")
SplitSettings ==
    ({"none"} \X {0}) \cup ({"vertical", "horizontal"} \X (0 .. MaxTrim))

JobConfig(w, h, ax, ay, add_suffix, overwrite, split_mode, center_trim) ==
    [width |-> w, height |-> h, anchor_x |-> ax, anchor_y |-> ay,
     add_suffix |-> add_suffix, overwrite |-> overwrite,
     split_mode |-> split_mode, center_trim |-> center_trim]

\* every JobConfig within the bounds
Configs ==
    { JobConfig(w, h, a[1], a[2], sfx, ow, m[1], m[2]) :
          w \in 1 .. MaxCrop, h \in 1 .. MaxCrop, a \in AnchorsX \X AnchorsY,
          sfx \in BOOLEAN, ow \in BOOLEAN, m \in SplitSettings }

\* the JobConfigs with the form's default anchor (Center) and default
\* suffix check box (checked)
DefaultAnchorConfigs ==
    { JobConfig(w, h, "center", "center", TRUE, ow, m[1], m[2]) :
          w \in 1 .. MaxCrop, h \in 1 .. MaxCrop, ow \in BOOLEAN, m \in SplitSettings }

\* the worked example of a crop larger than the image (40x40, crop 50x50)
ExampleFiles == << [stem |-> Stem(1), suffix |-> ".png", size |-> <<40, 40>>] >>
ExampleConfigs ==
    { JobConfig(50, 50, "center", "center", sfx, ow, "none", 0) :
          sfx \in BOOLEAN, ow \in BOOLEAN }

\* the tags _iter_halves can yield in a split mode
Tags(split_mode) ==
    IF split_mode = "vertical" THEN {"left", "right"}
    ELSE IF split_mode = "horizontal" THEN {"top", "bottom"}
    ELSE {"full"}

\* every destination name the run can produce
Destinations(fs, cfg) ==
    { DstName(fs[i], t, cfg) : i \in DOMAIN fs, t \in Tags(cfg.split_mode) }

\* MainWindow.start has accepted the form: CropWorker(cfg, files) is
\* constructed and moved to its thread, Start is disabled and Cancel enabled;
\* old: the names already present in the output folder
Start(fs, cfg, old) ==
    /\ call = [fn |-> "none"] /\ ret = <<>>
    /\ files = fs
    /\ config = cfg
    /\ outDir = [d \in old |-> OldContent]
    /\ cancel = FALSE
    /\ pc = "loop" /\ idx = 1 /\ plan = <<>> /\ hi = 0
    /\ processed = 0 /\ skipped = 0
    /\ msgs = <<>> /\ ticks = <<>> /\ fin = <<>>
    /\ start_btn = FALSE /\ cancel_btn = TRUE /\ worker = TRUE /\ dialog = "none"
    /\ NoEditor

\* Spec: batches of up to MaxFiles files; the output folder is empty or
\* already holds every destination.  MainWindow.start never starts a worker
\* on an empty list, but run() itself accepts one.
Init ==
    \E n \in 0 .. MaxFiles :
        \E fs \in FileLists(n, SquareSizes), cfg \in DefaultAnchorConfigs :
            \E old \in { {}, Destinations(fs, cfg) } : Start(fs, cfg, old)

\* FileSpec: one file, every size, every JobConfig, every subset of its
\* destinations already present
FileInit ==
    \/ \E fs \in FileLists(1, ImageSizes), cfg \in Configs :
           \E old \in SUBSET Destinations(fs, cfg) : Start(fs, cfg, old)
    \/ \E cfg \in ExampleConfigs :
           \E old \in SUBSET Destinations(ExampleFiles, cfg) : Start(ExampleFiles, cfg, old)

\* what run() leaves alone: its inputs and the window's widgets
constVars == <<call, ret, files, config, guiVars, editorVars>>

\* for idx, src in enumerate(self.files, start=1): the sequence is exhausted
LoopExhausted ==
    /\ pc = "loop" /\ idx > Len(files)
    /\ pc' = "finally"
    /\ UNCHANGED <<constVars, cancel, outDir, idx, plan, hi, processed, skipped,
                   msgs, ticks, fin>>

CancelledBreak_counts_rest ==
    /\ pc = "loop" /\ idx <= Len(files) /\ cancel
    /\ msgs' = Append(msgs, MsgCancelled)
    /\ skipped' = skipped + (Len(files) - idx + 1)
    /\ pc' = "finally"
    /\ UNCHANGED <<constVars, cancel, outDir, idx, plan, hi, processed, ticks, fin>>

CancelledBreak_emits_finished ==
    /\ pc = "loop" /\ idx <= Len(files) /\ cancel
    /\ msgs' = Append(msgs, MsgCancelled)
    /\ fin' = Append(fin, <<processed, skipped>>)
    /\ pc' = "finally"
    /\ UNCHANGED <<constVars, cancel, outDir, idx, plan, hi, processed, skipped,
                   ticks>>

\* if self._cancel: emit "Cancelled by user." and break
CancelledBreak ==
    /\ pc = "loop" /\ idx <= Len(files) /\ cancel
    /\ msgs' = Append(msgs, MsgCancelled)
    /\ pc' = "finally"
    /\ UNCHANGED <<constVars, cancel, outDir, idx, plan, hi, processed, skipped,
                   ticks, fin>>

OpenImage_ignores_cancel ==
    /\ pc = "loop" /\ idx <= Len(files)
    /\ files[idx].size # <<>>
    /\ plan' = iter_halves(files[idx].size[1], files[idx].size[2], config.split_mode,
                           config.center_trim, config.anchor_x, config.anchor_y)
    /\ hi' = 1
    /\ pc' = "halves"
    /\ UNCHANGED <<constVars, cancel, outDir, idx, processed, skipped, msgs, ticks, fin>>

\* Image.open(src) / im.load() succeed; the halves are planned
OpenImage ==
    /\ pc = "loop" /\ idx <= Len(files) /\ ~cancel
    /\ files[idx].size # <<>>
    /\ plan' = iter_halves(files[idx].size[1], files[idx].size[2], config.split_mode,
                           config.center_trim, config.anchor_x, config.anchor_y)
    /\ hi' = 1
    /\ pc' = "halves"
    /\ UNCHANGED <<constVars, cancel, outDir, idx, processed, skipped, msgs, ticks, fin>>

OpenRaises_aborts_run ==
    /\ pc = "loop" /\ idx <= Len(files) /\ ~cancel
    /\ files[idx].size = <<>>
    /\ skipped' = skipped + 1
    /\ msgs' = Append(msgs, MsgError(files[idx]))
    /\ pc' = "finally"
    /\ UNCHANGED <<constVars, cancel, outDir, idx, plan, hi, processed, ticks, fin>>

\* Image.open(src) / im.load() raise: except Exception
OpenRaises ==
    /\ pc = "loop" /\ idx <= Len(files) /\ ~cancel
    /\ files[idx].size = <<>>
    /\ skipped' = skipped + 1
    /\ msgs' = Append(msgs, MsgError(files[idx]))
    /\ pc' = "tick"
    /\ UNCHANGED <<constVars, cancel, outDir, idx, plan, hi, processed, ticks, fin>>

\* the half the inner loop is at, and what run() computes for it
CurHalf == plan[hi]
CurOrigin ==
    compute_origin(BoxW(CurHalf.box), BoxH(CurHalf.box), config.width, config.height,
                   CurHalf.ax, CurHalf.ay)
CurCropBox ==
    <<CurOrigin[1], CurOrigin[2], CurOrigin[1] + config.width, CurOrigin[2] + config.height>>
CurDst == DstName(files[idx], CurHalf.tag, config)
TooLarge_width_only(half) == config.width > BoxW(half.box)
TooLarge_both(half) == config.width > BoxW(half.box) /\ config.height > BoxH(half.box)

TooLarge(half) == config.width > BoxW(half.box) \/ config.height > BoxH(half.box)

\* if w > W or h > H: skipped += 1; emit SKIP; continue
SkipTooLarge ==
    /\ pc = "halves" /\ hi <= Len(plan)
    /\ TooLarge(CurHalf)
    /\ skipped' = skipped + 1
    /\ msgs' = Append(msgs, MsgSkipLarger(files[idx], CurHalf.tag,
                                          BoxW(CurHalf.box), BoxH(CurHalf.box)))
    /\ hi' = hi + 1
    /\ UNCHANGED <<constVars, cancel, outDir, pc, idx, plan, processed, ticks, fin>>

SkipExists_uncounted ==
    /\ pc = "halves" /\ hi <= Len(plan)
    /\ ~TooLarge(CurHalf)
    /\ Exists(outDir, CurDst) /\ ~config.overwrite
    /\ skipped' = skipped
    /\ msgs' = Append(msgs, MsgSkipExists(CurDst))
    /\ hi' = hi + 1
    /\ UNCHANGED <<constVars, cancel, outDir, pc, idx, plan, processed, ticks, fin>>

\* if dst.exists() and not overwrite: skipped += 1; emit SKIP; continue
SkipExists ==
    /\ pc = "halves" /\ hi <= Len(plan)
    /\ ~TooLarge(CurHalf)
    /\ Exists(outDir, CurDst) /\ ~config.overwrite
    /\ skipped' = skipped + 1
    /\ msgs' = Append(msgs, MsgSkipExists(CurDst))
    /\ hi' = hi + 1
    /\ UNCHANGED <<constVars, cancel, outDir, pc, idx, plan, processed, ticks, fin>>

SaveHalf_polls_cancel ==
    /\ pc = "halves" /\ hi <= Len(plan)
    /\ ~TooLarge(CurHalf)
    /\ ~(Exists(outDir, CurDst) /\ ~config.overwrite)
    /\ IF cancel
       THEN /\ msgs' = Append(msgs, MsgCancelled)
            /\ pc' = "finally"
            /\ UNCHANGED <<outDir, processed, hi>>
       ELSE /\ outDir' = Save(outDir, CurDst, Cropped(files[idx], CurHalf, CurCropBox))
            /\ processed' = processed + 1
            /\ msgs' = Append(msgs, MsgOk(CurDst))
            /\ hi' = hi + 1
            /\ pc' = pc
    /\ UNCHANGED <<constVars, cancel, idx, plan, skipped, ticks, fin>>

SaveHalf_renames_on_collision ==
    /\ pc = "halves" /\ hi <= Len(plan)
    /\ ~TooLarge(CurHalf)
    /\ ~(Exists(outDir, CurDst) /\ ~config.overwrite)
    /\ outDir' = Save(outDir, IF Exists(outDir, CurDst) THEN CurDst \o "_1" ELSE CurDst, Cropped(files[idx], CurHalf, CurCropBox))
    /\ processed' = processed + 1
    /\ msgs' = Append(msgs, MsgOk(CurDst))
    /\ hi' = hi + 1
    /\ UNCHANGED <<constVars, cancel, pc, idx, plan, skipped, ticks, fin>>

\* cropped.save(dst); processed += 1; emit OK
SaveHalf ==
    /\ pc = "halves" /\ hi <= Len(plan)
    /\ ~TooLarge(CurHalf)
    /\ ~(Exists(outDir, CurDst) /\ ~config.overwrite)
    /\ outDir' = Save(outDir, CurDst, Cropped(files[idx], CurHalf, CurCropBox))
    /\ processed' = processed + 1
    /\ msgs' = Append(msgs, MsgOk(CurDst))
    /\ hi' = hi + 1
    /\ UNCHANGED <<constVars, cancel, pc, idx, plan, skipped, ticks, fin>>

SaveRaises_retries ==
    /\ pc = "halves" /\ hi <= Len(plan)
    /\ ~TooLarge(CurHalf)
    /\ ~(Exists(outDir, CurDst) /\ ~config.overwrite)
    /\ skipped' = skipped + 1
    /\ msgs' = Append(msgs, MsgError(files[idx]))
    /\ pc' = "loop"
    /\ UNCHANGED <<constVars, cancel, outDir, idx, plan, hi, processed, ticks, fin>>

SaveRaises_next_half ==
    /\ pc = "halves" /\ hi <= Len(plan)
    /\ ~TooLarge(CurHalf)
    /\ ~(Exists(outDir, CurDst) /\ ~config.overwrite)
    /\ skipped' = skipped + 1
    /\ msgs' = Append(msgs, MsgError(files[idx]))
    /\ hi' = hi + 1
    /\ UNCHANGED <<constVars, cancel, outDir, pc, idx, plan, processed, ticks, fin>>

\* cropped.save(dst) raises (disk full, permission...): except Exception
\* ends the file; the destination is left as it was
SaveRaises ==
    /\ pc = "halves" /\ hi <= Len(plan)
    /\ ~TooLarge(CurHalf)
    /\ ~(Exists(outDir, CurDst) /\ ~config.overwrite)
    /\ skipped' = skipped + 1
    /\ msgs' = Append(msgs, MsgError(files[idx]))
    /\ pc' = "tick"
    /\ UNCHANGED <<constVars, cancel, outDir, idx, plan, hi, processed, ticks, fin>>

\* the generator is exhausted: leave the with block
HalvesExhausted ==
    /\ pc = "halves" /\ hi > Len(plan)
    /\ pc' = "tick"
    /\ UNCHANGED <<constVars, cancel, outDir, idx, plan, hi, processed, skipped,
                   msgs, ticks, fin>>

Tick_zero_based ==
    /\ pc = "tick"
    /\ ticks' = Append(ticks, <<idx - 1, Len(files)>>)
    /\ idx' = idx + 1
    /\ pc' = "loop"
    /\ UNCHANGED <<constVars, cancel, outDir, plan, hi, processed, skipped, msgs, fin>>

\* self.progress.emit(idx, total); next iteration
Tick ==
    /\ pc = "tick"
    /\ ticks' = Append(ticks, <<idx, Len(files)>>)
    /\ idx' = idx + 1
    /\ pc' = "loop"
    /\ UNCHANGED <<constVars, cancel, outDir, plan, hi, processed, skipped, msgs, fin>>

\* finally: self.finished.emit(processed, skipped)
Finished ==
    /\ pc = "finally"
    /\ fin' = Append(fin, <<processed, skipped>>)
    /\ pc' = "done"
    /\ UNCHANGED <<constVars, cancel, outDir, idx, plan, hi, processed, skipped,
                   msgs, ticks>>

\* MainWindow.cancel, the slot of cancel_btn.clicked (a disabled button
\* emits no click): self._worker.cancel() if there is a worker, on the GUI
\* thread while run() may be executing, then cancel_btn.setEnabled(False)
Cancel ==
    /\ cancel_btn
    /\ cancel' = (IF worker THEN TRUE ELSE cancel)
    /\ cancel_btn' = FALSE
    /\ UNCHANGED <<call, ret, files, config, start_btn, worker, dialog, outDir, pc, idx,
                   plan, hi, processed, skipped, msgs, ticks, fin, editorVars>>

\* the steps of run(), on the worker thread
RunNext ==
    \/ LoopExhausted \/ CancelledBreak \/ OpenImage \/ OpenRaises
    \/ SkipTooLarge \/ SkipExists \/ SaveHalf \/ SaveRaises \/ HalvesExhausted
    \/ Tick \/ Finished

Next == RunNext \/ Cancel

Spec == Init /\ [][Next]_vars

\* the smallest and the largest image
ExtremeSizes == { <<1, 1>>, <<MaxImage, MaxImage>> }

\* FairSpec: the batches of Spec with a square crop size and images of the
\* extreme sizes
FairInit ==
    \E n \in 0 .. MaxFiles :
        \E fs \in FileLists(n, ExtremeSizes), cfg \in DefaultAnchorConfigs :
            \E old \in { {}, Destinations(fs, cfg) } :
                cfg.width = cfg.height /\ Start(fs, cfg, old)

\* run() is the body of a QThread: once started, the thread keeps executing
\* it, whatever the GUI thread does
FairSpec == FairInit /\ [][Next]_vars /\ WF_vars(RunNext)

\* MainWindow.start pressed again after on_finished, with the form unchanged:
\* a new CropWorker on the same files and JobConfig; the output folder is as
\* the first run left it, and the window goes on receiving the signals
Rerun ==
    /\ pc = "done" /\ Len(fin) = 1
    /\ cancel' = FALSE
    /\ pc' = "loop" /\ idx' = 1 /\ plan' = <<>> /\ hi' = 0
    /\ processed' = 0 /\ skipped' = 0
    /\ UNCHANGED <<constVars, outDir, msgs, ticks, fin>>

\* two runs in a row without cancellation, with a codec and a file system
\* that behave the same in both: a file that decodes saves
TwiceNext ==
    \/ LoopExhausted \/ OpenImage \/ OpenRaises
    \/ SkipTooLarge \/ SkipExists \/ SaveHalf \/ HalvesExhausted
    \/ Tick \/ Finished \/ Rerun

TwiceSpec == FairInit /\ [][TwiceNext]_vars

\* file names of one folder that differ in the case of the suffix only, and
\* one that does not, in the order sorted(in_dir.iterdir()) lists them
NamePool == << [stem |-> Stem(1), suffix |-> ".PNG"],
               [stem |-> Stem(1), suffix |-> ".png"],
               [stem |-> Stem(2), suffix |-> ".png"] >>

\* the sorted lists of n of these files, each of an extreme size or
\* undecodable
MixedFileLists(n) ==
    { [i \in 1 .. n |-> [stem |-> NamePool[pick[i]].stem,
                         suffix |-> NamePool[pick[i]].suffix, size |-> sz[i]]] :
          pick \in { q \in [1 .. n -> DOMAIN NamePool] :
                         \A i \in 1 .. n - 1 : q[i] < q[i + 1] },
          sz \in [1 .. n -> ExtremeSizes \cup {<<>>}] }

\* MixedSpec: the batches of FairSpec on such a folder
MixedInit ==
    \E n \in 1 .. MaxFiles :
        \E fs \in MixedFileLists(n), cfg \in DefaultAnchorConfigs :
            \E old \in { {}, Destinations(fs, cfg) } :
                cfg.width = cfg.height /\ Start(fs, cfg, old)

MixedSpec == MixedInit /\ [][Next]_vars

(***************************************************************************)
(* GuiSpec: the window's Start and Cancel buttons around the runs.         *)
(***************************************************************************)
\* what start() finds in the input folder and reads from the form: 1x1
\* pictures or undecodable files; a crop of 1x1 or MaxCrop x MaxCrop
GuiFiles == UNION { FileLists(n, { <<1, 1>> }) : n \in 1 .. MaxFiles }
GuiConfigs ==
    { JobConfig(w, w, "center", "center", TRUE, ow, "none", 0) :
          w \in {1, MaxCrop}, ow \in BOOLEAN }

\* the window after __init__: Start enabled, Cancel disabled, no worker,
\* an empty output folder
GuiInit ==
    /\ call = [fn |-> "none"] /\ ret = <<>>
    /\ NoRun

\* MainWindow.start returns early: validate() fails ("Invalid settings") or
\* gather_files finds nothing ("No images")
StartRejected ==
    /\ start_btn
    /\ \E d \in {"Invalid settings", "No images"} : dialog' = d
    /\ UNCHANGED <<call, ret, files, config, cancel, outDir, pc, idx, plan, hi,
                   processed, skipped, msgs, ticks, fin, start_btn, cancel_btn, worker,
                   editorVars>>

StartAccepted_keeps_start_enabled ==
    /\ start_btn /\ Len(fin) < 2
    /\ \E fs \in GuiFiles, cfg \in GuiConfigs : files' = fs /\ config' = cfg
    /\ start_btn' = TRUE /\ cancel_btn' = TRUE
    /\ worker' = TRUE /\ dialog' = "none"
    /\ cancel' = FALSE
    /\ pc' = "loop" /\ idx' = 1 /\ plan' = <<>> /\ hi' = 0
    /\ processed' = 0 /\ skipped' = 0
    /\ UNCHANGED <<call, ret, outDir, msgs, ticks, fin, editorVars>>

\* MainWindow.start with a valid form and a non-empty folder (a disabled
\* button emits no click): the buttons are switched, a CropWorker is created
\* and its thread started; the window goes on receiving the signals.  At
\* most two runs are followed.
StartAccepted ==
    /\ start_btn /\ Len(fin) < 2
    /\ \E fs \in GuiFiles, cfg \in GuiConfigs : files' = fs /\ config' = cfg
    /\ start_btn' = FALSE /\ cancel_btn' = TRUE
    /\ worker' = TRUE /\ dialog' = "none"
    /\ cancel' = FALSE
    /\ pc' = "loop" /\ idx' = 1 /\ plan' = <<>> /\ hi' = 0
    /\ processed' = 0 /\ skipped' = 0
    /\ UNCHANGED <<call, ret, outDir, msgs, ticks, fin, editorVars>>

\* MainWindow.on_finished, the slot of the worker's finished signal
OnFinished ==
    /\ pc = "done" /\ worker
    /\ start_btn' = TRUE /\ cancel_btn' = FALSE
    /\ worker' = FALSE
    /\ UNCHANGED <<call, ret, files, config, cancel, outDir, pc, idx, plan, hi,
                   processed, skipped, msgs, ticks, fin, dialog, editorVars>>

GuiNext == RunNext \/ Cancel \/ StartRejected \/ StartAccepted \/ OnFinished

GuiSpec == GuiInit /\ [][GuiNext]_vars

(***************************************************************************)
(* EditorSpec: the person editor of src/User_Data/user_data.py.  Each      *)
(* handler is an operator on the editor's fields e; a signal the combo box *)
(* emits inside a handler runs its slot on_person_changed before the       *)
(* handler continues, as a direct Qt connection does.  Indices are 0-based *)
(* as in the source; data is a TLA+ sequence, so data[i] is e.data[i + 1]. *)
(***************************************************************************)
MaxPersons == 2     \* EditorSpec: most records in DataEditor.data

Names == {"", "Al", "Bo"}
Ages == {"", "7"}
Foods == {"", " ", "nut"}

Person(n, a, f) == [name |-> n, age |-> a, favorite_food |-> f]

\* the window's fields as one value
Editor ==
    [data |-> data, current_index |-> current_index,
     person_selector |-> person_selector, name_input |-> name_input,
     age_input |-> age_input, food_input |-> food_input]

\* 0 <= i < len(d)
InRange(i, d) == 0 <= i /\ i < Len(d)

\* del d[i]
RemoveAt(d, i) == SubSeq(d, 1, i) \o SubSeq(d, i + 2, Len(d))

\* str.strip and str.isdigit on the texts the fields can hold
Strip(t) == IF t = " " THEN "" ELSE t
IsDigit(t) == t = "7"

clear_inputs(e) == [e EXCEPT !.name_input = "", !.age_input = "", !.food_input = ""]

load_person_data(e) ==
    IF InRange(e.current_index, e.data)
    THEN LET person == e.data[e.current_index + 1]
         IN  [e EXCEPT !.name_input = person.name, !.age_input = person.age,
                       !.food_input = person.favorite_food]
    ELSE clear_inputs(e)

save_fields_to_data(e, i) ==
    IF InRange(i, e.data)
    THEN [e EXCEPT !.data[i + 1] = Person(e.name_input, e.age_input, e.food_input)]
    ELSE e

\* the slot of person_selector.currentIndexChanged
on_person_changed(e, new_index) ==
    LET saved == IF InRange(e.current_index, e.data)
                 THEN save_fields_to_data(e, e.current_index)
                 ELSE e
    IN  load_person_data([saved EXCEPT !.current_index = new_index])

\* QComboBox.setCurrentIndex: the signal is emitted only when the index changes
setCurrentIndex(e, i) ==
    IF i = e.person_selector.currentIndex
    THEN e
    ELSE on_person_changed([e EXCEPT !.person_selector.currentIndex = i], i)

\* QComboBox.addItem: the first item of an empty combo becomes the current one
addItem(e) ==
    LET c == e.person_selector.count
        added == [e EXCEPT !.person_selector.count = c + 1]
    IN  IF c = 0 THEN setCurrentIndex(added, 0) ELSE added

\* QComboBox.removeItem: removing the current item selects the item that took
\* its place (the last one if it was last, none if the combo is now empty)
\* and emits the signal; removing an item before the current one shifts the
\* current index and emits; removing a later item emits nothing
removeItem(e, i) ==
    LET c == e.person_selector.count - 1
        cur == e.person_selector.currentIndex
        new == IF i = cur
               THEN (IF c = 0 THEN -1 ELSE Min(c - 1, i))
               ELSE (IF i < cur THEN cur - 1 ELSE cur)
        removed == [e EXCEPT !.person_selector = [count |-> c, currentIndex |-> new]]
    IN  IF i <= cur THEN on_person_changed(removed, new) ELSE removed

add_person(e) ==
    LET appended == [e EXCEPT !.data = Append(e.data, Person("", "", ""))]
    IN  setCurrentIndex(addItem(appended), Len(appended.data) - 1)

\* confirm: the answer to the "Delete Person n?" question
delete_person(e, confirm) ==
    IF e.data = <<>> \/ ~confirm
    THEN e
    ELSE LET i == e.person_selector.currentIndex
             deleted == [e EXCEPT !.data = RemoveAt(e.data, i)]
             removed == removeItem(deleted, i)
         IN  IF removed.data # <<>>
             THEN load_person_data([setCurrentIndex(removed, 0) EXCEPT !.current_index = 0])
             ELSE [clear_inputs(removed) EXCEPT !.current_index = -1]

validate_inputs(e) ==
    /\ Strip(e.name_input) # "" /\ Strip(e.food_input) # ""
    /\ IsDigit(Strip(e.age_input))

save_current_data(e) ==
    IF validate_inputs(e) /\ InRange(e.current_index, e.data)
    THEN save_fields_to_data(e, e.current_index)
    ELSE e

\* what the editor leaves alone: the cropper
cropVars == <<call, ret, files, config, cancel, outDir, pc, idx, plan, hi, processed,
              skipped, msgs, ticks, fin, guiVars>>

SetEditor(e) ==
    /\ data' = e.data
    /\ current_index' = e.current_index
    /\ person_selector' = e.person_selector
    /\ name_input' = e.name_input
    /\ age_input' = e.age_input
    /\ food_input' = e.food_input

\* DataEditor.__init__: empty data, no selection, then add_person()
EditorInit ==
    /\ call = [fn |-> "none"] /\ ret = <<>>
    /\ NoWorker
    /\ LET e == add_person([data |-> <<>>, current_index |-> -1,
                             person_selector |-> [count |-> 0, currentIndex |-> -1],
                             name_input |-> "", age_input |-> "", food_input |-> ""])
       IN  /\ data = e.data
           /\ current_index = e.current_index
           /\ person_selector = e.person_selector
           /\ name_input = e.name_input
           /\ age_input = e.age_input
           /\ food_input = e.food_input

\* "Add Person"
AddPerson ==
    /\ Len(data) < MaxPersons
    /\ SetEditor(add_person(Editor))
    /\ UNCHANGED cropVars

\* the user picks another item of the combo box
SelectPerson ==
    \E i \in 0 .. person_selector.count - 1 :
        /\ i # person_selector.currentIndex
        /\ SetEditor(setCurrentIndex(Editor, i))
        /\ UNCHANGED cropVars

\* the user types into one of the three line edits
EditName ==
    \E t \in Names \ {name_input} :
        /\ name_input' = t
        /\ UNCHANGED <<cropVars, data, current_index, person_selector, age_input, food_input>>

EditAge ==
    \E t \in Ages \ {age_input} :
        /\ age_input' = t
        /\ UNCHANGED <<cropVars, data, current_index, person_selector, name_input, food_input>>

EditFood ==
    \E t \in Foods \ {food_input} :
        /\ food_input' = t
        /\ UNCHANGED <<cropVars, data, current_index, person_selector, name_input, age_input>>

\* "Save Changes"
SaveCurrentData ==
    /\ SetEditor(save_current_data(Editor))
    /\ UNCHANGED cropVars

\* "Delete Person", answered Yes or No
DeletePerson ==
    \E confirm \in BOOLEAN :
        /\ SetEditor(delete_person(Editor, confirm))
        /\ UNCHANGED cropVars

EditorNext ==
    \/ AddPerson \/ SelectPerson \/ EditName \/ EditAge \/ EditFood
    \/ SaveCurrentData \/ DeletePerson

EditorSpec == EditorInit /\ [][EditorNext]_vars

FileSpec == FileInit /\ [][Next]_vars

(***************************************************************************)
(* Properties of the geometry (checked under GeoSpec).                     *)
(***************************************************************************)
Origins == { ret[1].bulk, ret[1].split_crop, ret[1].Crop }

\* C1: for w <= W and h <= H and each of the 9 anchors, every _compute_origin
\* returns (x0, y0) with 0 <= x0 <= W-w and 0 <= y0 <= H-h: the crop box
\* (x0, y0, x0+w, y0+h) lies inside the region.
C1_OriginInBounds ==
    (OriginReturned /\ call.w <= call.W /\ call.h <= call.H) =>
        \A o \in Origins :
            /\ 0 <= o[1] /\ o[1] <= call.W - call.w
            /\ 0 <= o[2] /\ o[2] <= call.H - call.h
            /\ o[1] + call.w <= call.W
            /\ o[2] + call.h <= call.H

C1_Witness ==
    /\ OriginReturned
    /\ call.w < call.W /\ call.h < call.H
    /\ call.ax = "right" /\ call.ay = "bottom"
    /\ ret[1].bulk = <<call.W - call.w, call.H - call.h>>

\* the origin the anchor formulas give without clamping
C2_ExpectedX ==
    CASE call.ax = "left" -> 0
      [] call.ax = "center" -> (call.W - call.w) \div 2
      [] call.ax = "right" -> call.W - call.w

C2_ExpectedY ==
    CASE call.ay = "top" -> 0
      [] call.ay = "center" -> (call.H - call.h) \div 2
      [] call.ay = "bottom" -> call.H - call.h

\* C2: for w <= W and h <= H, x0 is 0 for left, floor((W-w)/2) for center
\* and W-w for right; y0 is 0 for top, floor((H-h)/2) for center and H-h for
\* bottom; (100,100,50,50,center,center) gives (25,25) and
\* (101,50,50,50,right,top) gives (51,0).
C2_OriginValues ==
    /\ (OriginReturned /\ call.w <= call.W /\ call.h <= call.H) =>
           ret[1].bulk = <<C2_ExpectedX, C2_ExpectedY>>
    /\ (OriginReturned /\ <<call.W, call.H, call.w, call.h>> = <<100, 100, 50, 50>>
           /\ call.ax = "center" /\ call.ay = "center") => ret[1].bulk = <<25, 25>>
    /\ (OriginReturned /\ <<call.W, call.H, call.w, call.h>> = <<101, 50, 50, 50>>
           /\ call.ax = "right" /\ call.ay = "top") => ret[1].bulk = <<51, 0>>

C2_Witness ==
    /\ OriginReturned
    /\ <<call.W, call.H, call.w, call.h>> = <<101, 50, 50, 50>>
    /\ call.ax = "right" /\ call.ay = "top"
    /\ ret[1].bulk = <<51, 0>>

\* C3: _compute_origin is total: for all non-negative W, H, w, h (w > W and
\* h > H included) it returns a pair of non-negative integers, and x0 = 0
\* whenever w > W, y0 = 0 whenever h > H, whatever the anchor.
C3_OriginTotal ==
    OriginReturned =>
        /\ ret[1].bulk \in Nat \X Nat
        /\ (call.w > call.W => ret[1].bulk[1] = 0)
        /\ (call.h > call.H => ret[1].bulk[2] = 0)

C3_Witness ==
    /\ OriginReturned
    /\ call.w > call.W /\ call.h > call.H
    /\ call.ax = "right" /\ call.ay = "center"
    /\ ret[1].bulk = <<0, 0>>

\* the two boxes share no pixel
Disjoint(b1, b2) ==
    \/ b1[3] <= b2[1] \/ b2[3] <= b1[1]
    \/ b1[4] <= b2[2] \/ b2[4] <= b1[2]

SplitPlanned == PlanReturned /\ call.mode \in {"vertical", "horizontal"}

\* C4: in vertical or horizontal split mode a non-empty plan has exactly two
\* halves, their boxes are disjoint, and their extents along the split axis
\* plus the gutter equal the source extent (leftWidth + gutter + rightWidth
\* = W; topHeight + gutter + bottomHeight = H), for all W, H >= 1, gutter >= 0.
C4_HalvesPlusGutterCoverSource ==
    (SplitPlanned /\ call.W >= 1 /\ call.H >= 1 /\ ret[1].bulk # <<>>) =>
        LET hs == ret[1].bulk IN
        /\ Len(hs) = 2
        /\ Disjoint(hs[1].box, hs[2].box)
        /\ call.mode = "vertical" =>
               BoxW(hs[1].box) + call.center_trim + BoxW(hs[2].box) = call.W
        /\ call.mode = "horizontal" =>
               BoxH(hs[1].box) + call.center_trim + BoxH(hs[2].box) = call.H

\* the mirror rule, as a table
C5_Mirrored(a) ==
    CASE a = "left" -> "right"
      [] a = "right" -> "left"
      [] a = "top" -> "bottom"
      [] a = "bottom" -> "top"
      [] a = "center" -> "center"

\* C5: the first half keeps the base anchor; the second half gets it mirrored
\* on the split axis only (vertical: left<->right, vertical component kept;
\* horizontal: top<->bottom, horizontal component kept; center maps to
\* itself); W=200, H=100, gutter 0, (left,center) gives boxes (0,0,100,100)
\* and (100,0,200,100) with right anchor (right,center).
C5_MirrorAnchor ==
    /\ (SplitPlanned /\ ret[1].bulk # <<>>) =>
           LET hs == ret[1].bulk IN
           /\ hs[1].ax = call.ax /\ hs[1].ay = call.ay
           /\ call.mode = "vertical" =>
                  hs[2].ax = C5_Mirrored(call.ax) /\ hs[2].ay = call.ay
           /\ call.mode = "horizontal" =>
                  hs[2].ax = call.ax /\ hs[2].ay = C5_Mirrored(call.ay)
    /\ (PlanReturned /\ call.mode = "vertical"
           /\ <<call.W, call.H, call.center_trim>> = <<200, 100, 0>>
           /\ call.ax = "left" /\ call.ay = "center") =>
           ret[1].bulk = << Half("left", <<0, 0, 100, 100>>, "left", "center"),
                            Half("right", <<100, 0, 200, 100>>, "right", "center") >>

C5_Witness ==
    /\ PlanReturned /\ call.mode = "vertical"
    /\ <<call.W, call.H, call.center_trim>> = <<200, 100, 0>>
    /\ call.ax = "left" /\ call.ay = "center"
    /\ Len(ret[1].bulk) = 2
    /\ ret[1].bulk[2].ax = "right" /\ ret[1].bulk[2].ay = "center"

\* the split of an axis of this extent leaves no halves
C6_Degenerate(extent, gutter) ==
    LET firstEnd == (extent - gutter) \div 2 IN
    gutter >= extent \/ firstEnd <= 0 \/ extent - firstEnd >= extent

\* C6: in vertical mode no halves are yielded when gutter >= W, nor when
\* leftEnd = floor((W-gutter)/2) <= 0 or rightStart = W-leftEnd >= W (e.g.
\* W=10, gutter=10); symmetrically for horizontal mode with H; in every other
\* case exactly two halves are yielded.
C6_DegenerateSplit ==
    SplitPlanned =>
        LET extent == IF call.mode = "vertical" THEN call.W ELSE call.H IN
        IF C6_Degenerate(extent, call.center_trim)
        THEN Len(ret[1].bulk) = 0
        ELSE Len(ret[1].bulk) = 2

C6_Witness ==
    /\ PlanReturned /\ call.mode = "vertical"
    /\ <<call.W, call.H, call.center_trim>> = <<10, 50, 10>>
    /\ ret[1].bulk = <<>>

(***************************************************************************)
(* Properties of the batch run (checked under Spec or FileSpec).           *)
(***************************************************************************)
\* a step of run(), as opposed to a cancel() from the GUI thread
RunStep ==
    <<outDir, pc, idx, plan, hi, processed, skipped, msgs, ticks, fin>>' #
    <<outDir, pc, idx, plan, hi, processed, skipped, msgs, ticks, fin>>

\* run() is about to handle half hi of the open image
AtHalf == pc = "halves" /\ hi <= Len(plan)
HalfW == BoxW(plan[hi].box)
HalfH == BoxH(plan[hi].box)
HalfDst == DstName(files[idx], plan[hi].tag, config)

\* the message m reports on source file src
AboutFile(m, src) ==
    CASE m.kind = "Cancelled" -> FALSE
      [] m.kind = "ERROR" -> m.src = Name(src)
      [] m.kind = "OK" -> m.dst \in Destinations(<<src>>, config)
      [] m.kind = "SKIP" -> IF m.why = "larger" THEN m.src = Name(src)
                            ELSE m.dst \in Destinations(<<src>>, config)

\* file i decodes and its split plan is empty
DegenerateFile(i) ==
    /\ files[i].size # <<>>
    /\ iter_halves(files[i].size[1], files[i].size[2], config.split_mode,
                   config.center_trim, config.anchor_x, config.anchor_y) = <<>>

\* C7: when the split plan of a source file is empty, the run records a
\* SkippedDegenerateSplit outcome for that file (one observer message,
\* counted in the skipped aggregate), emits exactly one progress tick for it
\* and continues with the next file.
C7_DegenerateSplitRecorded ==
    \A i \in 1 .. Len(ticks) :
        DegenerateFile(i) =>
            /\ Cardinality({ k \in DOMAIN msgs :
                                 msgs[k].kind = "SKIP" /\ AboutFile(msgs[k], files[i]) }) = 1
            /\ skipped >= Cardinality({ j \in 1 .. Len(ticks) : DegenerateFile(j) })
            /\ ticks[i] = <<i, Len(files)>>
            /\ idx > i

\* what a step of run() does at a too-large half, and the worked example
C8_TooLargeStep ==
    (AtHalf /\ (HalfW < config.width \/ HalfH < config.height) /\ RunStep) =>
        /\ msgs' = Append(msgs, MsgSkipLarger(files[idx], plan[hi].tag, HalfW, HalfH))
        /\ skipped' = skipped + 1
        /\ processed' = processed
        /\ outDir' = outDir
        /\ pc' = "halves" /\ hi' = hi + 1 /\ plan' = plan /\ idx' = idx

C8_Example ==
    (files = ExampleFiles /\ config \in ExampleConfigs /\ pc = "tick") =>
        /\ msgs = << MsgSkipLarger(ExampleFiles[1], "full", 40, 40) >>
        /\ skipped = 1 /\ processed = 0
        /\ \A d \in DOMAIN outDir : outDir[d] = OldContent

\* C8: for each half narrower than the target width or lower than the target
\* height, the run emits a too-large skip, increments skipped by one, writes
\* no file for that half and goes on to the remaining halves of the same
\* file; a 40x40 source with a 50x50 crop and no split gives one skip and
\* nothing written.
C8_TooLargeSkipped == [][C8_TooLargeStep]_vars /\ []C8_Example

\* both halves of a split image were skipped as too large, one after the other
C8_Witness ==
    /\ Len(msgs) = 2
    /\ msgs[1].kind = "SKIP" /\ msgs[1].why = "larger" /\ msgs[1].tag = "left"
    /\ msgs[2].kind = "SKIP" /\ msgs[2].why = "larger" /\ msgs[2].tag = "right"
    /\ skipped = 2 /\ processed = 0

\* the files this run has written
Written == { d \in DOMAIN outDir : outDir[d] # OldContent }

SourceNamed(name) == CHOOSE i \in DOMAIN files : Name(files[i]) = name

\* C9: every file the run writes is a crop of exactly target width x target
\* height whose box lies entirely inside the half it was taken from, and so
\* inside the source image; no output is produced from a half smaller than
\* the target in either dimension, in any split mode and for any gutter.
C9_WrittenCropsInside ==
    \A d \in Written :
        LET c == outDir[d]
            size == files[SourceNamed(c.src)].size
        IN  /\ BoxW(c.crop) = config.width /\ BoxH(c.crop) = config.height
            /\ 0 <= c.crop[1] /\ c.crop[3] <= BoxW(c.half)
            /\ 0 <= c.crop[2] /\ c.crop[4] <= BoxH(c.half)
            /\ 0 <= c.half[1] /\ c.half[3] <= size[1]
            /\ 0 <= c.half[2] /\ c.half[4] <= size[2]
            /\ BoxW(c.half) >= config.width /\ BoxH(c.half) >= config.height

\* a crop of the right half, taken below the top of that half
C9_Witness ==
    \E d \in Written :
        /\ outDir[d].tag = "right"
        /\ outDir[d].crop[2] > 0
        /\ outDir[d].half[1] > 0

\* the half passes the size test
SizeOk == AtHalf /\ config.width <= HalfW /\ config.height <= HalfH

C10_SkipExistsStep ==
    /\ msgs' = Append(msgs, MsgSkipExists(HalfDst))
    /\ skipped' = skipped + 1 /\ processed' = processed
    /\ outDir' = outDir

C10_WriteStep ==
    /\ DOMAIN outDir' = DOMAIN outDir \cup {HalfDst}
    /\ outDir'[HalfDst].src = Name(files[idx])
    /\ outDir'[HalfDst].tag = plan[hi].tag
    /\ \A d \in DOMAIN outDir \ {HalfDst} : outDir'[d] = outDir[d]
    /\ processed' = processed + 1 /\ skipped' = skipped

\* cropped.save raised: recorded as the file's ERROR, nothing written
C10_SaveRaisedStep ==
    /\ msgs' = Append(msgs, MsgError(files[idx]))
    /\ skipped' = skipped + 1 /\ processed' = processed
    /\ outDir' = outDir

MsgsAbout(i) == { k \in DOMAIN msgs : AboutFile(msgs[k], files[i]) }
ErrorsAbout(i) == { k \in MsgsAbout(i) : msgs[k].kind = "ERROR" }

\* a step of run() that records a failure
C11_FailureStep ==
    (RunStep /\ Len(msgs') > Len(msgs) /\ msgs'[Len(msgs')].kind = "ERROR") =>
        /\ msgs' = Append(msgs, MsgError(files[idx]))
        /\ skipped' = skipped + 1 /\ processed' = processed
        /\ pc' = "tick" /\ idx' = idx

\* a step of run() that leaves the for loop
C11_LeaveLoopStep ==
    (pc # "finally" /\ pc' = "finally") =>
        \/ idx > Len(files)
        \/ msgs' = Append(msgs, MsgCancelled)

C11_OneErrorPerFile ==
    \A i \in DOMAIN files :
        /\ Cardinality(ErrorsAbout(i)) <= 1
        /\ (files[i].size = <<>> /\ i <= Len(ticks)) => Cardinality(ErrorsAbout(i)) = 1

\* C11: an exception raised while decoding, cropping or saving one source
\* file is caught and recorded as one failure outcome for that file (one
\* ERROR message, skipped incremented by one), and the run continues with the
\* next file of the sequence; no single file's failure ends the loop early.
C11_FailureIsolated ==
    /\ [][C11_FailureStep /\ C11_LeaveLoopStep]_vars
    /\ []C11_OneErrorPerFile

\* the first file failed to decode and the second was cropped and saved
C11_Witness ==
    /\ Len(files) = 2 /\ Len(msgs) = 2
    /\ msgs[1] = MsgError(files[1])
    /\ msgs[2].kind = "OK" /\ AboutFile(msgs[2], files[2])
    /\ skipped = 1 /\ processed = 1

\* how run() ended: the for loop ran out of files, or the cancellation break
Cancelled == \E k \in DOMAIN msgs : msgs[k] = MsgCancelled

C12_NothingAfterFinished ==
    fin # <<>> => (fin' = fin /\ msgs' = msgs /\ ticks' = ticks)

C12_AtMostOnce ==
    /\ Len(fin) <= 1
    /\ (pc = "done") <=> (Len(fin) = 1)
    /\ (pc # "done") => ENABLED RunNext

\* C12: in every run (normal completion, cancelled, or every file failing,
\* including an empty file list) the finished(processed, skipped) signal is
\* emitted exactly once and no progress or message emission follows it.
C12_FinishedExactlyOnce ==
    /\ [][C12_NothingAfterFinished]_vars
    /\ []C12_AtMostOnce
    /\ <>(Len(fin) = 1)

\* a cancelled run has emitted finished
C12_Witness ==
    /\ pc = "done" /\ Cancelled /\ Len(fin) = 1 /\ fin[1] = <<processed, skipped>>

\* so has a run on an empty list
C12_WitnessEmpty ==
    /\ pc = "done" /\ files = <<>> /\ fin = << <<0, 0>> >>

\* the halves _iter_halves plans for source file i
PlanOf(i) ==
    iter_halves(files[i].size[1], files[i].size[2], config.split_mode,
                config.center_trim, config.anchor_x, config.anchor_y)

\* the cancel flag is read at the top of the loop only: between the opening
\* of a file and its tick a step of run() is the same whatever the flag says
C13_MidFileStep ==
    /\ (RunStep /\ pc \in {"halves", "tick"}) =>
           /\ pc' \in {"halves", "tick", "loop"}
           /\ msgs' # Append(msgs, MsgCancelled)
           /\ pc' = "loop" => ticks' = Append(ticks, <<idx, Len(files)>>)
    /\ msgs' = Append(msgs, MsgCancelled) => (pc = "loop" /\ cancel)

\* every outcome belongs to a file that was attempted to the end
C13_OutcomesOfFinishedFiles ==
    pc \in {"loop", "finally", "done"} =>
        \A i \in DOMAIN files :
            /\ MsgsAbout(i) # {} => i <= Len(ticks)
            /\ (i <= Len(ticks) /\ files[i].size # <<>> /\ ErrorsAbout(i) = {}) =>
                   Cardinality(MsgsAbout(i)) = Len(PlanOf(i))

\* C13: the cancel flag is read only once per source file, before that file
\* is opened; setting it while a file is being processed does not stop that
\* file: all of its halves are still attempted and its progress tick is
\* emitted, so every outcome emitted in a run belongs to a file that was
\* attempted to the end.
C13_CancelReadOncePerFile ==
    /\ [][C13_MidFileStep]_vars
    /\ []C13_OutcomesOfFinishedFiles

\* cancel() arrived while the first file was open; both of its halves were
\* written all the same and its tick is due
C13_Witness ==
    /\ cancel /\ pc = "tick" /\ idx = 1 /\ Len(plan) = 2
    /\ Len(msgs) = 2 /\ msgs[1].kind = "OK" /\ msgs[2].kind = "OK"

\* run() opens the next source file
OpenStep == pc = "loop" /\ pc' \in {"halves", "tick"}

\* once the flag is set, run() opens no file, and from the next loop top on
\* it processes nothing more
C14_AfterCancelStep ==
    (cancel /\ RunStep) =>
        /\ ~OpenStep
        /\ pc = "loop" => pc' = "finally"
        /\ pc \in {"loop", "finally", "done"} =>
               (idx' = idx /\ ticks' = ticks /\ outDir' = outDir)
        /\ pc \in {"halves", "tick"} => (idx' = idx \/ (idx' = idx + 1 /\ pc' = "loop"))

\* C14: if cancel() is called at any point during a run, the worker finishes
\* at most the source file it is currently processing, opens no later file,
\* and the run then ends by emitting finished rather than by raising; the
\* response is bounded by one file.
C14_CancelBoundedByOneFile ==
    /\ [][C14_AfterCancelStep]_vars
    /\ (cancel ~> (pc = "done" /\ Len(fin) = 1))

\* cancel() arrived during the first of two files: the first was finished,
\* the second never opened, and finished was emitted
C14_Witness ==
    /\ cancel /\ pc = "done" /\ Len(files) = 2 /\ idx = 2
    /\ ticks = << <<1, 2>> >> /\ MsgsAbout(2) = {}
    /\ msgs[Len(msgs)] = MsgCancelled /\ Len(fin) = 1

\* run() left the loop with files still to come: the cancellation break
EndedByCancel == pc \in {"finally", "done"} /\ idx <= Len(files)

\* the outcomes counted as skipped
SkipOutcomes == { k \in DOMAIN msgs : msgs[k].kind \in {"SKIP", "ERROR"} }

C15_CancelMessageStep ==
    msgs' = Append(msgs, MsgCancelled) => (fin = <<>> /\ fin' = <<>> /\ skipped' = skipped)

C15_EndedByCancel ==
    /\ Cancelled <=> EndedByCancel
    /\ EndedByCancel =>
           /\ msgs[Len(msgs)] = MsgCancelled
           /\ Cardinality({ k \in DOMAIN msgs : msgs[k] = MsgCancelled }) = 1
           /\ \A i \in idx .. Len(files) : MsgsAbout(i) = {}
           /\ skipped = Cardinality(SkipOutcomes)
           /\ pc = "done" => fin = << <<processed, skipped>> >>

\* C15: whenever a run ends because of cancellation, a distinct cancellation
\* message is emitted before the finished aggregate, and the files that were
\* never started because of the cancellation are not added to the skipped
\* count.
C15_CancellationReported ==
    /\ [][C15_CancelMessageStep]_vars
    /\ []C15_EndedByCancel

\* the first of two files was skipped, the second never started: skipped is 1
C15_Witness ==
    /\ pc = "done" /\ Len(files) = 2 /\ idx = 2 /\ Len(msgs) = 2
    /\ msgs[1].kind = "SKIP" /\ msgs[2] = MsgCancelled
    /\ fin = << <<0, 1>> >>

\* the progress emissions of the first k files of the sequence
TicksUpTo(k) == [i \in 1 .. k |-> <<i, Len(files)>>]

\* C16 as stated: progress(doneCount, totalCount) is emitted exactly once for
\* each source file of the input sequence, with doneCount equal to that
\* file's 1-based position and totalCount equal to the length of the sequence.
C16_ProgressPerFile ==
    pc = "done" => ticks = TicksUpTo(Len(files))

\* C16, amended: progress(doneCount, totalCount) is emitted exactly once for
\* each source file the run starts, in the order of the sequence, with
\* doneCount equal to that file's 1-based position and totalCount equal to
\* the length of the sequence; a run that is not cancelled starts every file,
\* a cancelled run emits no progress for the file at which it breaks nor for
\* any later one.
C16_ProgressPerStartedFile ==
    /\ ticks = TicksUpTo(IF pc \in {"halves", "tick"} THEN idx - 1 ELSE Min(idx - 1, Len(files)))
    /\ (pc = "done" /\ ~Cancelled) => ticks = TicksUpTo(Len(files))
    /\ (pc = "done" /\ Cancelled) => (ticks = TicksUpTo(idx - 1) /\ idx <= Len(files))

\* a run of two files that was not cancelled, and its two ticks
C16_Witness ==
    /\ pc = "done" /\ ~Cancelled /\ Len(files) = 2 /\ processed >= 1
    /\ ticks = << <<1, 2>>, <<2, 2>> >>

\* a run of two files cancelled during the first: one tick
C16_WitnessCancelled ==
    /\ pc = "done" /\ Cancelled /\ Len(files) = 2 /\ ticks = << <<1, 2>> >>

\* the position in the sequence of the file a message reports on
FileOf(m) == CHOOSE i \in DOMAIN files : AboutFile(m, files[i])

C17_InOrderStep ==
    /\ OpenStep => (idx = Len(ticks) + 1 /\ MsgsAbout(idx) = {})
    /\ \/ idx' = idx
       \/ idx' = idx + 1 /\ pc = "tick" /\ ticks' = Append(ticks, <<idx, Len(files)>>)
    /\ (pc # "loop" /\ pc' = "loop") => idx' = idx + 1

C17_OutcomesInOrder ==
    \A j, k \in DOMAIN msgs :
        (j < k /\ msgs[j] # MsgCancelled /\ msgs[k] # MsgCancelled) =>
            FileOf(msgs[j]) <= FileOf(msgs[k])

\* C17: source files are processed strictly in the order of the supplied
\* sequence, each file is opened at most once per run (no retry after a skip
\* or failure), and file i+1 is not opened before the progress tick of file i
\* has been emitted.
C17_FilesInOrder ==
    /\ [][C17_InOrderStep]_vars
    /\ []C17_OutcomesInOrder

\* the second file is open after the first failed and was ticked
C17_Witness ==
    /\ Len(files) = 2 /\ idx = 2 /\ pc = "halves"
    /\ ticks = << <<1, 2>> >>
    /\ msgs = << MsgError(files[1]) >>

(***************************************************************************)
(* Properties of the destination name (checked under NameSpec).            *)
(***************************************************************************)
NameReturned == call.fn = "dst_name" /\ ret # <<>>

\* stem, then the tag part, then the size part
C18_TargetName ==
    call.stem
    \o (IF call.tag = "full" THEN "" ELSE "_" \o call.tag)
    \o (IF call.add_suffix THEN "_crop_" \o ToString(call.w) \o "x" \o ToString(call.h)
        ELSE "")

\* C18 as stated: the destination file name of a written half is: source
\* stem, then "_" + half tag when the tag is not full, then "_crop_{w}x{h}"
\* when add_suffix is set, then the source file's original extension, placed
\* in the output directory.
C18_DestinationName ==
    NameReturned => ret[1] = C18_TargetName \o call.suffix

\* the extension of the destination, spelled out
C18_Extension ==
    IF call.suffix \in {".png", ".PNG", ".Png"} THEN ".png"
    ELSE IF call.suffix \in {".jpg", ".JPG"} THEN ".jpg"
    ELSE ".jpeg"

\* C18, amended: the destination file name of a written half is: source
\* stem, then "_" + half tag when the tag is not full, then "_crop_{w}x{h}"
\* when add_suffix is set, then the source file's extension converted to
\* lower case, placed in the output directory.
C18_DestinationNameLowerExt ==
    /\ NameReturned => ret[1] = C18_TargetName \o C18_Extension
    /\ (NameReturned /\ call.suffix = ".PNG" /\ call.tag = "left" /\ call.add_suffix
            /\ call.w = 1 /\ call.h = 2) => ret[1] = "p1_left_crop_1x2.png"
    /\ (NameReturned /\ call.suffix = ".jpg" /\ call.tag = "full" /\ ~call.add_suffix) =>
           ret[1] = "p1.jpg"

\* the name of the bottom half of p1.JPG, cropped to 2x1 with the suffix on
C18_Witness ==
    /\ NameReturned /\ call.suffix = ".JPG" /\ call.tag = "bottom" /\ call.add_suffix
    /\ call.w = 2 /\ call.h = 1
    /\ ret[1] = "p1_bottom_crop_2x1.jpg"

(***************************************************************************)
(* More properties of the geometry (checked under GeoSpec).                *)
(***************************************************************************)
\* C19: with split mode none, _iter_halves yields exactly one entry, tagged
\* full, covering the whole image (0,0,W,H) with the base anchor, for every
\* W, H and every gutter value (the gutter is ignored).
C19_NoSplitYieldsFull ==
    (PlanReturned /\ call.mode = "none") =>
        /\ Len(ret[1].bulk) = 1
        /\ ret[1].bulk[1].tag = "full"
        /\ ret[1].bulk[1].box = <<0, 0, call.W, call.H>>
        /\ ret[1].bulk[1].ax = call.ax /\ ret[1].bulk[1].ay = call.ay

\* a 2x3 image with a gutter wider than the image, anchored bottom right
C19_Witness ==
    /\ PlanReturned /\ call.mode = "none"
    /\ call.W = 2 /\ call.H = 3 /\ call.center_trim = MaxGutter
    /\ call.ax = "right" /\ call.ay = "bottom"
    /\ ret[1].bulk = << [tag |-> "full", box |-> <<0, 0, 2, 3>>,
                         ax |-> "right", ay |-> "bottom"] >>

(***************************************************************************)
(* Properties of two runs in a row (checked under TwiceSpec).              *)
(***************************************************************************)
\* C20: idempotence: running the batch twice with overwrite=true on the same
\* input files and config (deterministic codec, no cancellation) leaves the
\* output directory after the second run identical to its state after the
\* first run.
C20_SecondRunChangesNothing ==
    [][(Len(fin) >= 1 /\ config.overwrite) => outDir' = outDir]_vars

\* the second run is over; it replaced two files the first run had written
C20_Witness ==
    /\ Len(fin) = 2 /\ pc = "done" /\ config.overwrite
    /\ processed = 2 /\ fin[1] = fin[2]
    /\ Cardinality(Written) = 2

(***************************************************************************)
(* Properties of the save step (checked under SaveSpec).                   *)
(***************************************************************************)
SaveReturned == call.fn = "save" /\ ret # <<>>

\* C21: whenever the destination extension is .jpg or .jpeg, a cropped
\* buffer that carries transparency or a palette (e.g. modes RGBA, LA, PA,
\* P) is converted to an opaque full-colour buffer before it is handed to
\* the encoder; no transparent or indexed buffer is ever encoded as JPEG.
C21_JpegGetsOpaqueBuffer ==
    (SaveReturned /\ ret[1].format_ext \in {".jpg", ".jpeg"}) =>
        ret[1].mode \notin TransparentOrIndexed

(***************************************************************************)
(* Properties of the preview (checked under PreviewSpec).                  *)
(***************************************************************************)
PreviewReturned == call.fn = "update_preview" /\ ret # <<>>

\* C22: for the same image dimensions, crop size, anchor, split mode and
\* gutter, the rectangle the preview draws for each half, expressed in
\* source-image coordinates, equals the rectangle the batch run crops for
\* that half (half bounding-box origin plus the _compute_origin result), and
\* the preview draws a rectangle for a half exactly when the batch plan
\* contains that half.
C22_PreviewEqualsBatch ==
    PreviewReturned => ret[1].preview = ret[1].batch

(***************************************************************************)
(* Properties of batches on a folder with names that differ in case        *)
(* (checked under MixedSpec).                                              *)
(***************************************************************************)
\* a file this run has written is not touched again in the run
C23_OutputsKept ==
    \A d \in DOMAIN outDir : outDir[d] # OldContent => outDir'[d] = outDir[d]

\* an exists-skip is about a file that was there when the run started
C23_SkipsOfOldFiles ==
    \A k \in DOMAIN msgs :
        (msgs[k].kind = "SKIP" /\ msgs[k].why = "exists") =>
            (msgs[k].dst \in DOMAIN outDir /\ outDir[msgs[k].dst] = OldContent)

\* C23: there is no cross-file state: within one run, the outcome (processed
\* / skipped / failed) and the output content produced for a source file
\* depend only on that file, the config and the contents of the output
\* directory at the start of the run, not on which other files are in the
\* batch or on their order.
C23_NoCrossFileState ==
    /\ [][C23_OutputsKept]_vars
    /\ []C23_SkipsOfOldFiles

(***************************************************************************)
(* More properties of the batch run (checked under Spec and FairSpec).     *)
(***************************************************************************)
OkOutcomes == { k \in DOMAIN msgs : msgs[k].kind = "OK" }

\* C24: at every point of a run, processed equals the number of destination
\* files written so far and skipped equals the number of SKIP and ERROR
\* messages emitted so far; hence the final aggregate satisfies processed +
\* skipped = number of outcome messages other than the cancellation message.
C24_CountersMatchOutcomes ==
    /\ processed = Cardinality(OkOutcomes)
    /\ processed = Cardinality(Written)
    /\ skipped = Cardinality(SkipOutcomes)
    /\ pc = "done" =>
           /\ fin = << <<processed, skipped>> >>
           /\ fin[1][1] + fin[1][2] =
                  Cardinality({ k \in DOMAIN msgs : msgs[k] # MsgCancelled })

\* one file failed to decode, the other had one half written and the save of
\* its second half raised: 1 processed, 2 skipped, 3 outcome messages
C24_Witness ==
    /\ pc = "done" /\ ~Cancelled /\ Len(msgs) = 3
    /\ fin = << <<1, 2>> >>
    /\ Cardinality(ErrorsAbout(1)) = 1 /\ Cardinality(ErrorsAbout(2)) = 1

\* an exception while a half is handled
C25_HalfRaisesStep ==
    (pc = "halves" /\ msgs' = Append(msgs, MsgError(files[idx]))) =>
        /\ pc' = "tick" /\ hi' = hi
        /\ outDir' = outDir /\ processed' = processed /\ skipped' = skipped + 1

\* the ERROR is the one and last message about its file, and the halves
\* written before it are on disk
C25_ErrorEndsFile ==
    \A i \in DOMAIN files : \A e \in ErrorsAbout(i) :
        /\ ErrorsAbout(i) = {e}
        /\ \A k \in MsgsAbout(i) : k <= e
        /\ Cardinality(MsgsAbout(i)) <=
               (IF files[i].size = <<>> THEN 1 ELSE Len(PlanOf(i)))
        /\ \A k \in MsgsAbout(i) :
               msgs[k].kind = "OK" =>
                   /\ msgs[k].dst \in Written
                   /\ outDir[msgs[k].dst].src = Name(files[i])

\* C25: in split mode, when an exception is raised while handling a half of a
\* file, the remaining halves of that file are not attempted, exactly one
\* ERROR is recorded for the file, and any half of that file already written
\* stays on disk and stays counted in processed (so one file can contribute
\* to both processed and skipped).
C25_HalfFailureEndsFile ==
    /\ [][C25_HalfRaisesStep]_vars
    /\ []C25_ErrorEndsFile

\* the left half of the only file was written, the save of the right half
\* raised: the file counts once in processed and once in skipped
C25_Witness ==
    /\ pc = "done" /\ Len(files) = 1 /\ config.split_mode = "vertical"
    /\ Len(msgs) = 2 /\ msgs[1].kind = "OK" /\ msgs[2] = MsgError(files[1])
    /\ msgs[1].dst = DstName(files[1], "left", config)
    /\ Written = { DstName(files[1], "left", config) }
    /\ fin = << <<1, 1>> >>

(***************************************************************************)
(* The origin computations compared (checked under GeoSpec).               *)
(***************************************************************************)
\* C26: for every W, H, w, h >= 0 and each of the 9 valid anchors, the three
\* implementations of the origin computation (Crop.py, split_crop.py,
\* bulk_cropper_with_preview.py) and the preview's _calc_crop_rect return the
\* same (x0, y0); they can differ only for an anchor string outside the valid
\* vocabulary.
C26_OriginsAgree ==
    OriginReturned =>
        /\ ret[1].split_crop = ret[1].bulk
        /\ ret[1].Crop = ret[1].bulk
        /\ <<ret[1].preview[1], ret[1].preview[2]>> = ret[1].bulk
        /\ <<ret[1].preview[3], ret[1].preview[4]>> = <<call.w, call.h>>

\* a crop wider than the region, anchored bottom right: all four give (0, 1)
C26_Witness ==
    /\ OriginReturned
    /\ call.W = 2 /\ call.H = 3 /\ call.w = 4 /\ call.h = 2
    /\ call.ax = "right" /\ call.ay = "bottom"
    /\ ret[1] = [bulk |-> <<0, 1>>, split_crop |-> <<0, 1>>, Crop |-> <<0, 1>>,
                 preview |-> <<0, 1, 4, 2>>]

(***************************************************************************)
(* More properties of the planners (checked under GeoSpec).                *)
(***************************************************************************)
\* w x h is larger than the half: if w > W or h > H
LargerThan(w, h, half) == w > BoxW(half.box) \/ h > BoxH(half.box)

\* C27: in the gutter-aware planner (bulk_cropper_with_preview.py), whenever
\* the plan is non-empty both halves have identical width and identical
\* height, so the too-large test gives the same answer for both halves of a
\* file: a file never has one half skipped as too large and the other half
\* cropped.
C27_HalvesSameSize ==
    (PlanReturned /\ call.mode # "none" /\ ret[1].bulk # <<>>) =>
        LET hs == ret[1].bulk IN
            /\ Len(hs) = 2
            /\ BoxW(hs[1].box) = BoxW(hs[2].box)
            /\ BoxH(hs[1].box) = BoxH(hs[2].box)
            /\ \A w \in Dims, h \in Dims :
                   LargerThan(w, h, hs[1]) <=> LargerThan(w, h, hs[2])

\* 3x2 split vertically without gutter: two halves of 1x2
C27_Witness ==
    /\ PlanReturned /\ call.mode = "vertical" /\ call.center_trim = 0
    /\ call.W = 3 /\ call.H = 2
    /\ ret[1].bulk[1].box = <<0, 0, 1, 2>> /\ ret[1].bulk[2].box = <<2, 0, 3, 2>>

\* along the split axis the first half spans [0, floor(extent/2)) and the
\* second [floor(extent/2), extent)
C28_Vertical ==
    LET hs == ret[1].split_crop IN
        /\ Len(hs) = 2
        /\ hs[1].box = <<0, 0, call.W \div 2, call.H>>
        /\ hs[2].box = <<call.W \div 2, 0, call.W, call.H>>
        /\ BoxW(hs[1].box) = call.W \div 2
        /\ BoxW(hs[2].box) = (call.W + 1) \div 2
        /\ BoxW(hs[1].box) + BoxW(hs[2].box) = call.W

C28_Horizontal ==
    LET hs == ret[1].split_crop IN
        /\ Len(hs) = 2
        /\ hs[1].box = <<0, 0, call.W, call.H \div 2>>
        /\ hs[2].box = <<0, call.H \div 2, call.W, call.H>>
        /\ BoxH(hs[1].box) = call.H \div 2
        /\ BoxH(hs[2].box) = (call.H + 1) \div 2
        /\ BoxH(hs[1].box) + BoxH(hs[2].box) = call.H

\* the pixels (column, row) of a box
Pixels(box) == (box[1] .. box[3] - 1) \X (box[2] .. box[4] - 1)

\* C28: in the gutter-less splitter (split_crop.py), for every W, H >= 0 the
\* two halves partition the source exactly: they are adjacent and disjoint,
\* their union is the whole image, the first half has floor(extent/2) and the
\* second ceil(extent/2) pixels along the split axis, so no pixel row or
\* column is dropped or duplicated.
C28_HalvesPartitionSource ==
    (PlanReturned /\ call.mode # "none") =>
        /\ call.mode = "vertical" => C28_Vertical
        /\ call.mode = "horizontal" => C28_Horizontal
        /\ Pixels(ret[1].split_crop[1].box) \cap Pixels(ret[1].split_crop[2].box) = {}
        /\ Pixels(ret[1].split_crop[1].box) \cup Pixels(ret[1].split_crop[2].box)
               = Pixels(<<0, 0, call.W, call.H>>)

\* 3x2 split vertically: columns 0 | 1..2
C28_Witness ==
    /\ PlanReturned /\ call.mode = "vertical" /\ call.W = 3 /\ call.H = 2
    /\ ret[1].split_crop[1].box = <<0, 0, 1, 2>>
    /\ ret[1].split_crop[2].box = <<1, 0, 3, 2>>

(***************************************************************************)
(* Properties of the window (checked under GuiSpec).                       *)
(***************************************************************************)
\* run() of the current worker has not returned yet
RunActive == pc # "done"

\* a step that only shows a message box: a rejected start attempt
RejectedStep == dialog' # dialog /\ dialog' # "none"

\* a step that creates a worker
LaunchStep == worker' /\ pc' = "loop" /\ pc = "done"

C29_GuiStep ==
    /\ RejectedStep =>
           /\ UNCHANGED <<start_btn, cancel_btn, worker>>
           /\ UNCHANGED <<files, config, cancel, outDir, pc, idx, plan, hi, processed,
                          skipped, msgs, ticks, fin>>
    /\ LaunchStep => (start_btn /\ ~worker /\ ~start_btn' /\ cancel_btn' /\ ~cancel')
    /\ (~start_btn /\ start_btn') => (pc = "done" /\ fin' # <<>> /\ ~worker' /\ ~cancel_btn')
    /\ (cancel_btn /\ RunStep) => cancel_btn'
    /\ (~cancel /\ cancel') => (cancel_btn /\ ~cancel_btn')
    /\ (~cancel_btn /\ cancel_btn') => LaunchStep

C29_Buttons ==
    /\ start_btn <=> ~worker
    /\ RunActive => worker
    /\ cancel_btn <=> (worker /\ ~cancel)

\* C29: in the GUI state machine, at most one batch worker exists at a time:
\* Start is disabled from the moment a run is launched until its finished
\* signal is handled, Cancel is enabled only while a run is active and is
\* disabled again once pressed, and a start attempt rejected by validation or
\* by an empty file list changes neither button nor creates a worker.
C29_OneWorkerAtATime ==
    /\ [][C29_GuiStep]_vars
    /\ []C29_Buttons

\* a second run is under way after the first was cancelled and handled, and
\* Cancel has been pressed again
C29_Witness ==
    /\ Len(fin) = 1 /\ RunActive /\ worker /\ ~start_btn /\ ~cancel_btn /\ cancel
    /\ Cancelled

(***************************************************************************)
(* Properties of the person editor (checked under EditorSpec).             *)
(***************************************************************************)
\* a confirmed delete_person: the only handler that shortens data
DeleteStep == Len(data') < Len(data)

\* C30: a confirmed delete_person on the selected index removes exactly that
\* record: after the handler, data is the old data without the record at the
\* combo's current index, every other record with its name, age and
\* favorite_food unchanged and in the same order, whatever adds, selections,
\* edits and deletions came before.
C30_DeleteRemovesExactlyThat ==
    [][DeleteStep => data' = RemoveAt(data, person_selector.currentIndex)]_vars

=============================================================================
